---- MODULE Spec2Model ----
(***************************************************************************)
(* Model of berlin_poi.py: geocode an address, query Overpass for amenity  *)
(* nodes around it, filter them by haversine distance and name, and draw   *)
(* the result on a folium map.                                             *)
(*                                                                         *)
(* Numbers.  Python floats are modelled in fixed point:                    *)
(*   - angles in degrees are integers;                                     *)
(*   - radians and the values of sin, cos, sqrt, atan2 are integers in     *)
(*     units of 1/Scale;                                                   *)
(*   - lengths (R, radius, distance) are integers in units of 1/LenUnit    *)
(*     metre, except the stored "distance_m", which round(distance, 2)     *)
(*     puts in units of 1/100 metre.                                       *)
(* With Scale = 10^4 the haversine term `a` resolves angles of about ten   *)
(* degrees and more, so coordinates are taken on a coarse grid: two points *)
(* are either coincident or thousands of kilometres apart.                 *)
(***************************************************************************)
EXTENDS Integers, Sequences, FiniteSets, TLC

Scale == 10000
LenUnit == 8

\* pi in units of 1/Scale
PiScaled == (31416 * Scale) \div 10000

\* a length given in metres, in units of 1/LenUnit metre
Metres(m) == m * LenUnit

\* Python's None, and a present value (Optional as a sequence of length <= 1)
None == << >>
Some(v) == << v >>
Val(o) == o[1]

Abs(x) == IF x < 0 THEN -x ELSE x
Sgn(x) == IF x < 0 THEN -1 ELSE 1

\* x / n truncated toward zero (n > 0)
TDiv(x, n) == Sgn(x) * (Abs(x) \div n)

\* fixed-point product x*y (both in 1/Scale), rounded to nearest
Mul(x, y) == Sgn(x) * Sgn(y) * ((Abs(x) * Abs(y) + Scale \div 2) \div Scale)

\* math.radians: degrees (integer) to radians (1/Scale)
Radians(deg) == Sgn(deg) * ((Abs(deg) * PiScaled) \div 180)

\* x / 2 on a fixed-point value
Half(x) == TDiv(x, 2)

RECURSIVE SinSeries(_, _, _, _)
\* Taylor series of sin: term is the current term, n the degree it has
SinSeries(x2, term, n, acc) ==
    IF term = 0 \/ n > 15 THEN acc
    ELSE LET next == -TDiv(Mul(term, x2), (n + 1) * (n + 2))
         IN  SinSeries(x2, next, n + 2, acc + term)

\* math.sin for |x| <= 2*pi (x in 1/Scale radians); never above 1
Sin(x) ==
    LET ax == Abs(x)
        r  == IF ax > PiScaled THEN ax - PiScaled ELSE ax
        s1 == IF ax > PiScaled THEN -1 ELSE 1
        f  == IF 2 * r > PiScaled THEN PiScaled - r ELSE r
        v  == SinSeries(Mul(f, f), f, 1, 0)
    IN  Sgn(x) * s1 * (IF v > Scale THEN Scale ELSE v)

\* math.cos, as sin(pi/2 - |x|)
Cos(x) == Sin((PiScaled \div 2) - Abs(x))

RECURSIVE SqrtSearch(_, _, _)
\* largest r in lo..hi with r*r <= n
SqrtSearch(n, lo, hi) ==
    IF lo >= hi THEN lo
    ELSE LET mid == (lo + hi + 1) \div 2
         IN  IF mid * mid <= n THEN SqrtSearch(n, mid, hi)
             ELSE SqrtSearch(n, lo, mid - 1)

\* math.sqrt on a fixed-point value 0 <= x <= 2*Scale
Sqrt(x) == SqrtSearch(x * Scale, 0, 2 * Scale)

RECURSIVE AtanSeries(_, _, _, _)
\* Taylor series of atan for 0 <= t <= tan(pi/8): pow = t^n, sign alternates
AtanSeries(t2, pow, n, acc) ==
    IF pow = 0 \/ n > 15 THEN acc
    ELSE LET term == pow \div n
             sgn  == IF (n \div 2) % 2 = 0 THEN 1 ELSE -1
         IN  AtanSeries(t2, Mul(pow, t2), n + 2, acc + sgn * term)

\* atan of 0 <= t <= 1 (1/Scale), reduced to the series' range by
\* atan(t) = pi/4 - atan((1 - t) / (1 + t))
Atan(t) ==
    LET Series(u) == AtanSeries(Mul(u, u), u, 1, 0)
    IN  IF 10000 * t > 4142 * Scale
        THEN (PiScaled \div 4) - Series(((Scale - t) * Scale) \div (Scale + t))
        ELSE Series(t)

\* math.atan2(y, x) for y >= 0 and x >= 0, the quadrant math.sqrt yields
Atan2(y, x) ==
    IF y = 0 THEN 0
    ELSE IF y <= x THEN Atan((y * Scale) \div x)
    ELSE (PiScaled \div 2) - Atan((x * Scale) \div y)

\* floor(x * y / Scale) for x >= 0, y >= 0 without leaving 32 bits
MulDiv(x, y) == (x \div Scale) * y + ((x % Scale) * y) \div Scale

\* Earth's radius
R == Metres(6371000)

\* HaversineA with the longitudes added instead of subtracted
HaversineA_SumLon(lat1, lon1, lat2, lon2) ==
    LET lat1_rad == Radians(lat1)
        lon1_rad == Radians(lon1)
        lat2_rad == Radians(lat2)
        lon2_rad == Radians(lon2)
        dlat == lat2_rad - lat1_rad
        dlon == lon2_rad + lon1_rad
        sdlat == Sin(Half(dlat))
        sdlon == Sin(Half(dlon))
    IN  Mul(sdlat, sdlat)
          + Mul(Mul(Cos(lat1_rad), Cos(lat2_rad)), Mul(sdlon, sdlon))

\* the haversine term a of haversine_distance (line 33)
HaversineA(lat1, lon1, lat2, lon2) ==
    LET lat1_rad == Radians(lat1)
        lon1_rad == Radians(lon1)
        lat2_rad == Radians(lat2)
        lon2_rad == Radians(lon2)
        dlat == lat2_rad - lat1_rad
        dlon == lon2_rad - lon1_rad
        sdlat == Sin(Half(dlat))
        sdlon == Sin(Half(dlon))
    IN  Mul(sdlat, sdlat)
          + Mul(Mul(Cos(lat1_rad), Cos(lat2_rad)), Mul(sdlon, sdlon))

\* lines 34-36: math.sqrt(1 - a) raises ValueError when rounding left a
\* above 1; otherwise the distance R * c
DistanceFromA(a) ==
    IF a > Scale \/ a < 0
    THEN [raised |-> TRUE, value |-> 0]
    ELSE [raised |-> FALSE,
          value |-> MulDiv(R, 2 * Atan2(Sqrt(a), Sqrt(Scale - a)))]

\* haversine_distance: a distance, or raised when it ends in ValueError
haversine_distance(lat1, lon1, lat2, lon2) ==
    DistanceFromA(HaversineA(lat1, lon1, lat2, lon2))

\* round(distance, 2): a length in 1/LenUnit metre rounded half-to-even to
\* hundredths of a metre (result in hundredths)
Round2(d) ==
    LET whole == d \div LenUnit
        num   == (d % LenUnit) * 100
        q     == num \div LenUnit
        rem2  == 2 * (num % LenUnit)
        up    == rem2 > LenUnit \/ (rem2 = LenUnit /\ q % 2 = 1)
    IN  whole * 100 + q + (IF up THEN 1 ELSE 0)

\* ---------------------------------------------------------------- data

\* node.tags: a mapping whose keys are the tags present on the node
Tags(amenity, name) ==
    [k \in {t \in {"amenity", "name"} :
              \/ (t = "amenity" /\ amenity # None)
              \/ (t = "name" /\ name # None)}
       |-> IF k = "amenity" THEN Val(amenity) ELSE Val(name)]

\* dict.get(key, default)
Get(tags, key, default) == IF key \in DOMAIN tags THEN tags[key] ELSE default

\* an overpy node: tags and the coordinates, None when the element has none
Node(tags, lat, lon) == [tags |-> tags, lat |-> lat, lon |-> lon]

\* Python's repr of a distance rounded to hundredths ("12.5", "3.07", "0.0")
FormatHundredths(d) ==
    LET frac == d % 100
    IN  ToString(d \div 100) \o "." \o
        (IF frac % 10 = 0 THEN ToString(frac \div 10)
         ELSE IF frac < 10 THEN "0" \o ToString(frac)
         ELSE ToString(frac))

\* ------------------------------------------------ find_points_of_interest

\* the append of lines 61-67
MakePoi(poi_name, poi_type, poi_lat, poi_lon, distance) ==
    [name |-> poi_name, type |-> poi_type,
     latitude |-> poi_lat, longitude |-> poi_lon,
     distance_m |-> Round2(distance)]

\* AppendPoi inserting at the front
AppendPoi_Front(pois, poi) == << poi >> \o pois

\* pois.append(...) of line 61
AppendPoi(pois, poi) == Append(pois, poi)

\* the radius test of line 57
WithinRadius(distance, radius) == distance <= radius

\* the name test of lines 58-59
HasName(tags) == Get(tags, "name", "Unnamed POI") # "Unnamed POI"

\* lines 57-67 for a node at distance d: append it when it is within the
\* radius and named; the except branch is taken when the distance raised
KeepOrSkip(acc, node, poi_lat, poi_lon, d, radius) ==
    IF d.raised THEN [raised |-> TRUE, pois |-> acc.pois]
    ELSE IF WithinRadius(d.value, radius) /\ HasName(node.tags)
    THEN [raised |-> FALSE,
          pois |-> AppendPoi(acc.pois,
                       MakePoi(Get(node.tags, "name", "Unnamed POI"),
                           node.tags["amenity"], poi_lat, poi_lon, d.value))]
    ELSE acc

\* lines 52-67 for one node: float() of a missing coordinate raises
VisitNode(acc, node, lat, lon, radius) ==
    IF "amenity" \notin DOMAIN node.tags THEN acc
    ELSE IF node.lat = None \/ node.lon = None
    THEN [raised |-> TRUE, pois |-> acc.pois]
    ELSE KeepOrSkip(acc, node, Val(node.lat), Val(node.lon),
             haversine_distance(lat, lon, Val(node.lat), Val(node.lon)),
             radius)

RECURSIVE FindLoop(_, _, _, _, _, _)
\* the loop of lines 51-67 from node i on; it stops at the first node that
\* raises
FindLoop(nodes, i, acc, lat, lon, radius) ==
    IF i > Len(nodes) \/ acc.raised THEN acc
    ELSE FindLoop(nodes, i + 1, VisitNode(acc, nodes[i], lat, lon, radius),
             lat, lon, radius)

\* lines 68-71: return pois, or print the error and return []
ReturnOrExcept(r) ==
    IF r.raised THEN [pois |-> << >>, error |-> TRUE]
    ELSE [pois |-> r.pois, error |-> FALSE]

\* find_points_of_interest swallowing the collaborator's error unreported
find_points_of_interest_Silent(resp, lat, lon, radius) ==
    IF resp.raised THEN [pois |-> << >>, error |-> FALSE]
    ELSE ReturnOrExcept(FindLoop(resp.nodes, 1, [raised |-> FALSE, pois |-> << >>],
                            lat, lon, radius))

\* find_points_of_interest, given what overpass.query did: the returned
\* sequence and whether the except branch printed its error message
find_points_of_interest(resp, lat, lon, radius) ==
    IF resp.raised THEN [pois |-> << >>, error |-> TRUE]
    ELSE ReturnOrExcept(FindLoop(resp.nodes, 1, [raised |-> FALSE, pois |-> << >>],
                            lat, lon, radius))

\* the query text of lines 40-45, by its parameters
OverpassQuery(lat, lon, radius) ==
    [around |-> << radius, lat, lon >>, filter |-> "amenity", out |-> "body"]

\* -------------------------------------------------------- get_coordinates

\* get_coordinates falling back to a default location on failure
get_coordinates_Default(outcome) ==
    IF ~outcome.raised /\ outcome.location # None
    THEN [lat |-> Some(Val(outcome.location)[1]),
          lon |-> Some(Val(outcome.location)[2]), error |-> FALSE]
    ELSE [lat |-> Some(52), lon |-> Some(13), error |-> TRUE]

\* get_coordinates, given what geolocator.geocode did
get_coordinates(outcome) ==
    IF ~outcome.raised /\ outcome.location # None
    THEN [lat |-> Some(Val(outcome.location)[1]),
          lon |-> Some(Val(outcome.location)[2]), error |-> FALSE]
    ELSE [lat |-> None, lon |-> None, error |-> TRUE]

GeocodeQuery(address) == address \o ", Berlin, Germany"

\* -------------------------------------------------------------- create_map

\* CircleRadius drawn with the diameter
CircleRadius_Diameter == Metres(500)

\* the radius drawn by folium.Circle (line 96)
CircleRadius == Metres(250)

PoiMarker(poi) ==
    [location |-> << poi.latitude, poi.longitude >>,
     popup |-> poi.name \o " (" \o poi.type \o ")\n"
                 \o FormatHundredths(poi.distance_m) \o "m",
     color |-> "blue", icon |-> "star"]

\* the markers of the loop of lines 86-91
PoiMarkers(pois) == [i \in 1..Len(pois) |-> PoiMarker(pois[i])]

\* the folium map create_map saves
create_map(lat, lon, pois, address) ==
    [location |-> << lat, lon >>, zoom_start |-> 17,
     markers |-> << [location |-> << lat, lon >>,
                     popup |-> "Starting Point: " \o address,
                     color |-> "red", icon |-> "info-sign"] >>
                 \o PoiMarkers(pois),
     circles |-> << [location |-> << lat, lon >>, radius |-> CircleRadius,
                     color |-> "green", fill |-> TRUE] >>]

\* ------------------------------------------------------------------ state

VARIABLES
    pc,               \* where the run (or the harness) is
    address,          \* main: the line read from standard input
    geocoded,         \* what geolocator.geocode did; None before the call
    lat, lon,         \* the origin; None while unresolved
    radius,           \* the radius passed to find_points_of_interest
    response,         \* what overpass.query did; None before the call
    pois,             \* what find_points_of_interest returned
    stdout,           \* the lines printed so far
    geocodeQueries,   \* the calls made to geolocator.geocode
    overpassQueries,  \* the calls made to overpass.query
    artifact,         \* the content of poi_map.html; None while absent
    hlat1, hlon1, hlat2, hlon2, hdist   \* haversine_distance harness

vars == << pc, address, geocoded, lat, lon, radius, response, pois, stdout,
           geocodeQueries, overpassQueries, artifact,
           hlat1, hlon1, hlat2, hlon2, hdist >>

mainVars == << address, geocoded, lat, lon, radius, response, pois, stdout,
               geocodeQueries, overpassQueries, artifact >>

havVars == << hlat1, hlon1, hlat2, hlon2, hdist >>

\* ----------------------------------------------------------------- inputs

MaxNodes == 3

Addresses == {"Alexanderplatz 1", "Nonexistent Street 9999"}

\* coordinates the geocoder may resolve an address to
Locations == {<< 52, 13 >>, << 82, 13 >>}

\* the distance between the first location and the far candidates
BoundaryRadius == haversine_distance(52, 13, 30, 13).value

Radii == {Metres(250), BoundaryRadius, BoundaryRadius - 1}

CandidateNodes ==
    { Node(Tags(Some("cafe"), Some("Cafe X")), Some(52), Some(13)),
      Node(Tags(Some("bar"), Some("Bar Y")), Some(30), Some(13)),
      Node(Tags(Some("bench"), None), Some(52), Some(13)),
      Node(Tags(Some("atm"), Some("")), Some(52), Some(13)),
      Node(Tags(Some("toilets"), Some("Unnamed POI")), Some(30), Some(13)),
      Node(Tags(None, Some("Tiergarten")), Some(52), Some(13)),
      Node(Tags(None, Some("Relation member")), None, None),
      Node(Tags(Some("pub"), Some("Pub Z")), None, Some(13)),
      Node(Tags(Some("kiosk"), Some("Kiosk W")), Some(-82), Some(-167)) }

RECURSIVE SeqsUpTo(_, _)
SeqsUpTo(S, n) ==
    IF n = 0 THEN {<< >>}
    ELSE LET shorter == SeqsUpTo(S, n - 1)
         IN  shorter \cup {Append(q, x) : q \in shorter, x \in S}

\* what overpass.query may do: raise, or return a list of nodes
Responses ==
    {[raised |-> TRUE, nodes |-> << >>]}
      \cup {[raised |-> FALSE, nodes |-> q] : q \in SeqsUpTo(CandidateNodes, MaxNodes)}

\* what geolocator.geocode may do: raise, return None, or return a location
GeocodeOutcomes ==
    {[raised |-> TRUE, location |-> None], [raised |-> FALSE, location |-> None]}
      \cup {[raised |-> FALSE, location |-> Some(l)] : l \in Locations}

GridLats == {-90, -82, -45, 0, 30, 52, 82, 90}
GridLons == {-180, -167, -90, 0, 13, 103, 180}

NoDistance == [raised |-> FALSE, value |-> 0]

\* ------------------------------------------------------------------- main

Init ==
    /\ pc = "AwaitingInput"
    /\ address = ""
    /\ geocoded = None
    /\ lat = None /\ lon = None
    /\ radius = 0
    /\ response = None
    /\ pois = << >>
    /\ stdout = << >>
    /\ geocodeQueries = << >>
    /\ overpassQueries = << >>
    /\ artifact = None
    /\ hlat1 = 0 /\ hlon1 = 0 /\ hlat2 = 0 /\ hlon2 = 0 /\ hdist = NoDistance

\* line 108: address = input(...)
ReadAddress ==
    /\ pc = "AwaitingInput"
    /\ \E a \in Addresses : address' = a
    /\ pc' = "Resolving"
    /\ UNCHANGED << geocoded, lat, lon, radius, response, pois, stdout,
                    geocodeQueries, overpassQueries, artifact >>
    /\ UNCHANGED havVars

\* AfterResolve asking for the address again when it was not resolved
AfterResolve_Reprompt(la, lo) ==
    IF la = None \/ lo = None THEN "AwaitingInput" ELSE "Querying"

\* where main goes after get_coordinates (lines 112-116)
AfterResolve(la, lo) == IF la = None \/ lo = None THEN "Aborted" ELSE "Querying"

\* lines 111-116: get_coordinates and the check of its result
Resolve ==
    /\ pc = "Resolving"
    /\ \E outcome \in GeocodeOutcomes :
         LET r == get_coordinates(outcome)
             next == AfterResolve(r.lat, r.lon)
         IN  /\ geocodeQueries' = Append(geocodeQueries, GeocodeQuery(address))
             /\ geocoded' = Some(outcome)
             /\ lat' = r.lat
             /\ lon' = r.lon
             /\ stdout' = stdout
                   \o (IF r.error THEN << "Error geocoding address" >> ELSE << >>)
                   \o (IF next = "Aborted"
                       THEN << "Could not find coordinates for the address." >>
                       ELSE << "Coordinates for " \o address >>)
             /\ pc' = next
    /\ UNCHANGED << address, radius, response, pois, overpassQueries, artifact >>
    /\ UNCHANGED havVars

\* the radius main passes (line 119)
MainRadius == Metres(250)

\* AfterQuery without the early return on an empty result
AfterQuery_NoReturn(ps) == "Presenting"

\* where main goes after displaying the results (lines 122-129)
AfterQuery(ps) == IF ps # << >> THEN "Presenting" ELSE "Aborted"

\* the lines main prints for the result (lines 122-128)
Display(ps) ==
    IF ps # << >>
    THEN << "Found " \o ToString(Len(ps)) \o " named points of interest within 250 meters:" >>
           \o [i \in 1..Len(ps) |-> "- " \o ps[i].name \o " (" \o ps[i].type \o "), "
                                       \o FormatHundredths(ps[i].distance_m) \o " meters away"]
    ELSE << "No named points of interest found within 250 meters." >>

\* what main holds and has printed once find_points_of_interest returned r
Found(r) ==
    /\ pois' = r.pois
    /\ stdout' = stdout
          \o (IF r.error THEN << "Error querying Overpass API" >> ELSE << >>)
          \o Display(r.pois)
    /\ pc' = AfterQuery(r.pois)

\* lines 119-129: find_points_of_interest and the display of its result
Query ==
    /\ pc = "Querying"
    /\ \E resp \in Responses :
         /\ radius' = MainRadius
         /\ overpassQueries' = Append(overpassQueries,
                                   OverpassQuery(Val(lat), Val(lon), MainRadius))
         /\ response' = Some(resp)
         /\ Found(find_points_of_interest(resp, Val(lat), Val(lon), MainRadius))
    /\ UNCHANGED << address, geocoded, lat, lon, geocodeQueries, artifact >>
    /\ UNCHANGED havVars

\* line 132: create_map, which saves the map and reports it
Present ==
    /\ pc = "Presenting"
    /\ artifact' = Some(create_map(Val(lat), Val(lon), pois, address))
    /\ stdout' = Append(stdout, "Map saved as 'poi_map.html'. Open it in a web browser to view.")
    /\ pc' = "Done"
    /\ UNCHANGED << address, geocoded, lat, lon, radius, response, pois,
                    geocodeQueries, overpassQueries >>
    /\ UNCHANGED havVars

Next == ReadAddress \/ Resolve \/ Query \/ Present

Spec == Init /\ [][Next]_vars

\* ---------------------------------- find_points_of_interest on its own

InitFind ==
    /\ pc = "find_call"
    /\ address = ""
    /\ geocoded = None
    /\ \E l \in Locations : lat = Some(l[1]) /\ lon = Some(l[2])
    /\ radius \in Radii
    /\ response \in {Some(r) : r \in Responses}
    /\ pois = << >>
    /\ stdout = << >>
    /\ geocodeQueries = << >>
    /\ overpassQueries = << >>
    /\ artifact = None
    /\ hlat1 = 0 /\ hlon1 = 0 /\ hlat2 = 0 /\ hlon2 = 0 /\ hdist = NoDistance

\* the result and the output of find_points_of_interest returning r
FoundAlone(r) ==
    /\ pois' = r.pois
    /\ stdout' = stdout
          \o (IF r.error THEN << "Error querying Overpass API" >> ELSE << >>)

CallFind ==
    /\ pc = "find_call"
    /\ FoundAlone(find_points_of_interest(Val(response), Val(lat), Val(lon), radius))
    /\ overpassQueries' = Append(overpassQueries,
                              OverpassQuery(Val(lat), Val(lon), radius))
    /\ pc' = "find_return"
    /\ UNCHANGED << address, geocoded, lat, lon, radius, response,
                    geocodeQueries, artifact >>
    /\ UNCHANGED havVars

NextFind == CallFind

SpecFind == InitFind /\ [][NextFind]_vars

\* ------------------------------------------- haversine_distance on its own

InitHav ==
    /\ pc = "hav_call"
    /\ hlat1 \in GridLats /\ hlon1 \in GridLons
    /\ hlat2 \in GridLats /\ hlon2 \in GridLons
    /\ hdist = NoDistance
    /\ address = ""
    /\ geocoded = None
    /\ lat = None /\ lon = None
    /\ radius = 0
    /\ response = None
    /\ pois = << >>
    /\ stdout = << >>
    /\ geocodeQueries = << >>
    /\ overpassQueries = << >>
    /\ artifact = None

CallHaversine ==
    /\ pc = "hav_call"
    /\ hdist' = haversine_distance(hlat1, hlon1, hlat2, hlon2)
    /\ pc' = "hav_return"
    /\ UNCHANGED << hlat1, hlon1, hlat2, hlon2 >>
    /\ UNCHANGED mainVars

NextHav == CallHaversine

SpecHav == InitHav /\ [][NextHav]_vars

\* ----------------------------------------------------------- properties

\* find_points_of_interest has been called and has returned
Returned == response # None /\ pc # "find_call"

\* the candidates of the response, in the order returned
Candidates == IF response = None THEN << >> ELSE Val(response).nodes

\* the haversine distance the code computes for a coordinate pair
DistanceTo(la, lo) == haversine_distance(Val(lat), Val(lon), la, lo)

\* poi is the entry built from node: same name, category and coordinates
Matches(node, poi) ==
    /\ "amenity" \in DOMAIN node.tags /\ "name" \in DOMAIN node.tags
    /\ node.lat # None /\ node.lon # None
    /\ poi.name = node.tags["name"]
    /\ poi.type = node.tags["amenity"]
    /\ poi.latitude = Val(node.lat)
    /\ poi.longitude = Val(node.lon)

\* node has a category tag, a coordinate pair, a name that is neither empty
\* nor the placeholder, and a distance not exceeding the radius
Eligible(node) ==
    /\ "amenity" \in DOMAIN node.tags
    /\ "name" \in DOMAIN node.tags
    /\ node.tags["name"] \notin {"", "Unnamed POI"}
    /\ node.lat # None /\ node.lon # None
    /\ ~DistanceTo(Val(node.lat), Val(node.lon)).raised
    /\ DistanceTo(Val(node.lat), Val(node.lon)).value <= radius

InOutput(node) == \E i \in 1..Len(pois) : Matches(node, pois[i])

\* every returned POI lies within the radius
AllWithinRadius ==
    \A i \in 1..Len(pois) :
        LET d == DistanceTo(pois[i].latitude, pois[i].longitude)
        IN  ~d.raised /\ d.value <= radius

\* C1 (as claimed): find_points_of_interest never returns a POI whose
\* haversine distance from the origin exceeds radius, and every otherwise
\* eligible candidate at distance exactly radius is in the output.
C1_WithinRadiusBoundaryKept ==
    Returned =>
        /\ AllWithinRadius
        /\ \A j \in 1..Len(Candidates) :
             LET node == Candidates[j]
             IN  (Eligible(node)
                    /\ DistanceTo(Val(node.lat), Val(node.lon)).value = radius)
                 => InOutput(node)

\* C2 (as claimed): every returned POI has a non-empty name that is not the
\* placeholder.
C2_NamesNonEmpty ==
    Returned => \A i \in 1..Len(pois) : pois[i].name \notin {"", "Unnamed POI"}

Resolved == lat # None /\ lon # None

\* C3: poi_map.html exists only if the address was resolved and at least one
\* POI was returned, and once the run has ended it exists exactly then; a
\* run that ended in Aborted has written nothing.
C3_ArtifactIff ==
    /\ artifact # None => (Resolved /\ pois # << >>)
    /\ pc \in {"Done", "Aborted"} => (artifact # None <=> (Resolved /\ pois # << >>))
    /\ pc = "Aborted" => artifact = None

C3_Witness == pc = "Done" /\ artifact # None /\ Len(pois) >= 1

InStdout(line) == \E i \in 1..Len(stdout) : stdout[i] = line

NoPoisLine == "No named points of interest found within 250 meters."

\* C4: when overpass.query raises, the error is reported, the result is the
\* empty sequence, the query was made once, and the run ends in Aborted
\* without a map, printing the same "no POIs" line as for an empty response.
C4_QueryFailsSoft ==
    (Returned /\ (Val(response).raised \/ Val(response).nodes = << >>)) =>
        /\ pois = << >>
        /\ (Val(response).raised <=> InStdout("Error querying Overpass API"))
        /\ Len(overpassQueries) = 1
        /\ pc = "Aborted"
        /\ artifact = None
        /\ stdout[Len(stdout)] = NoPoisLine

C4_Witness == pc = "Aborted" /\ response # None /\ Val(response).raised

GeocodeFailed ==
    geocoded # None /\ (Val(geocoded).raised \/ Val(geocoded).location = None)

\* C5: when geocode returns no match or raises, the run is Aborted, geocode
\* was called exactly once and overpass.query was never called; geocode is
\* never called more than once in any run.
C5_GeocodeFailureTerminal ==
    /\ Len(geocodeQueries) <= 1
    /\ GeocodeFailed =>
         /\ pc = "Aborted"
         /\ Len(geocodeQueries) = 1
         /\ overpassQueries = << >>
         /\ response = None

C5_Witness == GeocodeFailed /\ pc = "Aborted" /\ Val(geocoded).raised

Transitions ==
    { << "AwaitingInput", "Resolving" >>,
      << "Resolving", "Querying" >>, << "Resolving", "Aborted" >>,
      << "Querying", "Presenting" >>, << "Querying", "Aborted" >>,
      << "Presenting", "Done" >> }

\* C6: every step of a run follows AwaitingInput -> Resolving -> Querying ->
\* Presenting -> Done, or enters Aborted from Resolving or Querying; nothing
\* changes once the run is Done or Aborted.
C6_ForwardOnly == [][(<< pc, pc' >> \in Transitions)]_vars

C6_Witness == pc = "Aborted" /\ response # None

RECURSIVE SubseqFrom(_, _, _, _)
\* ps[i..] is matched, in order, by distinct elements of nodes[j..]
SubseqFrom(ps, i, nodes, j) ==
    IF i > Len(ps) THEN TRUE
    ELSE IF j > Len(nodes) THEN FALSE
    ELSE IF Matches(nodes[j], ps[i]) THEN SubseqFrom(ps, i + 1, nodes, j + 1)
    ELSE SubseqFrom(ps, i, nodes, j + 1)

\* C7: the output of find_points_of_interest is a subsequence of the
\* candidates in the order the collaborator returned them.
C7_OrderPreserved == Returned => SubseqFrom(pois, 1, Candidates, 1)

\* two POIs returned with the farther one first: upstream order, not distance
C7_Witness ==
    /\ pc = "find_return" /\ Len(pois) >= 2
    /\ pois[1].distance_m > pois[2].distance_m

\* C8: the saved map has the origin marker first, then one marker per POI at
\* that POI's coordinates, and one circle centred on the origin whose radius
\* is the radius of the Overpass query and of the post-filter.
C8_MapContents ==
    pc = "Done" =>
        LET m == Val(artifact)
            origin == << Val(lat), Val(lon) >>
        IN  /\ Len(m.markers) = 1 + Len(pois)
            /\ m.markers[1].location = origin
            /\ Cardinality({i \in 1..Len(m.markers) : m.markers[i].icon = "info-sign"}) = 1
            /\ \A i \in 1..Len(pois) :
                 /\ m.markers[i + 1].location = << pois[i].latitude, pois[i].longitude >>
                 /\ m.markers[i + 1].icon = "star"
            /\ Len(m.circles) = 1
            /\ m.circles[1].location = origin
            /\ m.circles[1].radius = radius
            /\ overpassQueries[1].around = << radius, Val(lat), Val(lon) >>

C8_Witness == pc = "Done" /\ Len(pois) >= 2

\* C9: haversine_distance of a coordinate pair with itself returns 0.
C9_ZeroOnSamePoint ==
    (pc = "hav_return" /\ hlat1 = hlat2 /\ hlon1 = hlon2) =>
        (~hdist.raised /\ hdist.value = 0)

C9_Witness ==
    /\ pc = "hav_return" /\ hlat1 = hlat2 /\ hlon1 = hlon2
    /\ hlat1 = 52 /\ hlon1 = 13

\* C10 (as claimed): every eligible candidate of the response is in the
\* output, whatever the other candidates of the response are.
C10_EligibleAllReturned ==
    Returned => \A j \in 1..Len(Candidates) :
                    Eligible(Candidates[j]) => InOutput(Candidates[j])

====
